---- MODULE Spec2Model ----
(***************************************************************************)
(* Model of package fun (src/fun.go, the documented version at lines       *)
(* 213-526): a FunTest built by test(t, fun), cases bound by In, and the   *)
(* three terminal assertions Out, Err and Panic, plus the pure helper      *)
(* trimPkg.  The program is single-threaded; one action is one call.       *)
(*                                                                         *)
(* Go values held in interface{} are records [type, addr, num, str]:       *)
(* the dynamic type, the pointer (0 = nil pointer, only for pointer        *)
(* types), and the payload.  The nil interface is the record Nil.          *)
(* recover() is modelled with the semantics the source documents ("nil     *)
(* panic values are possible", src/fun.go:253): panic(nil) is recovered as *)
(* nil.                                                                    *)
(***************************************************************************)
EXTENDS Integers, Sequences, FiniteSets

VARIABLES pc, fun, ft, cur, fails, last, nIn, tpc, tin, tout

vars == <<pc, fun, ft, cur, fails, last, nIn, tpc, tin, tout>>
mainVars == <<pc, fun, ft, cur, fails, last, nIn>>
trimVars == <<tpc, tin, tout>>

\* Cap on the case counter ft.i (a Go int, unbounded in the program).
MaxCases == 3
\* Longest input string given to trimPkg in SpecTrim.
MaxLen == 4

----------------------------------------------------------------------------
\* Go values

Nil == [type |-> "nil", addr |-> 0, num |-> 0, str |-> ""]
IntV(n) == [type |-> "int", addr |-> 0, num |-> n, str |-> ""]
StrV(s) == [type |-> "string", addr |-> 0, num |-> 0, str |-> s]
BoolV(b) == [type |-> "bool", addr |-> 0, num |-> IF b THEN 1 ELSE 0, str |-> ""]
\* errors.New(msg): a fresh *errorString; addr names the allocation.
ErrNew(a, msg) == [type |-> "*errors.errorString", addr |-> a, num |-> 0, str |-> msg]
\* a nil pointer of a concrete type that implements error, boxed in an interface
NilPtrErr == [type |-> "*fun.myErr", addr |-> 0, num |-> 0, str |-> ""]
\* reflect.TypeOf(errors.New(""))
TypeOfErr == [type |-> "*reflect.rtype", addr |-> 9, num |-> 0, str |-> "*errors.errorString"]

PointerTypes == {"*errors.errorString", "*fun.myErr", "*reflect.rtype"}

\* reflect.DeepEqual on two interface{} values: structural, not by reference.
DeepEqual(x, y) ==
  IF x = Nil \/ y = Nil THEN x = y
  ELSE IF x.type # y.type THEN FALSE
  ELSE IF x.type \in PointerTypes
       THEN x.addr = y.addr \/ (x.addr # 0 /\ y.addr # 0 /\ x.str = y.str)
       ELSE x.num = y.num /\ x.str = y.str

\* s[:len(s)-1]
Front(s) == SubSeq(s, 1, Len(s) - 1)

----------------------------------------------------------------------------
\* trimPkg (src/fun.go:274-294); strings are sequences of one-character strings

\* first loop: cut s after its last '/'
CutSlash(s, i) ==
  LET RECURSIVE Loop(_)
      Loop(k) == IF k < 1 THEN s
                 ELSE IF s[k] = "/" THEN SubSeq(s, k + 1, Len(s))
                 ELSE Loop(k - 1)
  IN Loop(i)

\* second loop; dot = 0 stands for the code's dot == -1 (indices are 1-based)
DotScan(s, i, dot) ==
  LET RECURSIVE Loop(_, _)
      Loop(k, d) == IF k < 1 THEN SubSeq(s, d + 1, Len(s))
                    ELSE IF s[k] # "." THEN Loop(k - 1, d)
                    ELSE IF d = 0 THEN Loop(k - 1, k)
                    ELSE SubSeq(s, k + 1, Len(s))
  IN Loop(i, dot)

\* mutant: the second dot found returns s[i:] instead of s[i+1:]
trimPkgKeepsDot(s) ==
  LET t == CutSlash(s, Len(s))
      ds == {i \in 1..Len(t) : t[i] = "."}
  IN IF Cardinality(ds) >= 2
     THEN LET lastDot == CHOOSE i \in ds : \A j \in ds : j <= i
              prev == CHOOSE i \in ds \ {lastDot} : \A j \in ds \ {lastDot} : j <= i
          IN SubSeq(t, prev, Len(t))
     ELSE DotScan(t, Len(t), 0)

trimPkg(s) ==
  LET t == CutSlash(s, Len(s)) IN DotScan(t, Len(t), 0)

----------------------------------------------------------------------------
\* The values passed to test as `fun`, and what reflection says of them.
\* nil, "string", sumUnder10, func() {} and isError are the values the tests
\* pass; panicNil is func(...int) (int, error) { panic(nil) } and nilPtrErr is
\* func() (int, *myErr) { return 1, nil }, two more targets a caller can pass.

Targets == {"nil", "string", "sumUnder10", "novalues", "isError", "panicNil", "nilPtrErr"}

\* fun == nil / typ.Kind()
Kind(f) == IF f = "nil" THEN "nil" ELSE IF f = "string" THEN "string" ELSE "func"

\* the declared return types, typ.Out(0..NumOut-1)
OutTypes(f) ==
  CASE f = "sumUnder10" -> <<"int", "error">>
    [] f = "panicNil"   -> <<"int", "error">>
    [] f = "nilPtrErr"  -> <<"int", "*fun.myErr">>
    [] f = "isError"    -> <<"bool">>
    [] OTHER            -> << >>

\* the declared parameters: a fixed prefix and, for a variadic func, the element type
InTypes(f) ==
  CASE f = "sumUnder10" -> [fixed |-> << >>, variadic |-> TRUE, elem |-> "int"]
    [] f = "panicNil"   -> [fixed |-> << >>, variadic |-> TRUE, elem |-> "int"]
    [] f = "isError"    -> [fixed |-> <<"reflect.Type">>, variadic |-> FALSE, elem |-> ""]
    [] OTHER            -> [fixed |-> << >>, variadic |-> FALSE, elem |-> ""]

\* runtime.FuncForPC(val.Pointer()).Name()
FuncName(f) ==
  CASE f = "sumUnder10" -> <<"g", "i", "t", "h", "u", "b", ".", "c", "o", "m", "/", "j", "o", "e", "l", "t", "e", "r", "r", "y", "/", "f", "u", "n", ".", "s", "u", "m", "U", "n", "d", "e", "r", "1", "0">>
    [] f = "novalues"   -> <<"g", "i", "t", "h", "u", "b", ".", "c", "o", "m", "/", "j", "o", "e", "l", "t", "e", "r", "r", "y", "/", "f", "u", "n", ".", "T", "e", "s", "t", "M", "a", "i", "n", ".", "f", "u", "n", "c", "2", "3">>
    [] f = "isError"    -> <<"g", "i", "t", "h", "u", "b", ".", "c", "o", "m", "/", "j", "o", "e", "l", "t", "e", "r", "r", "y", "/", "f", "u", "n", ".", "i", "s", "E", "r", "r", "o", "r">>
    [] f = "panicNil"   -> <<"g", "i", "t", "h", "u", "b", ".", "c", "o", "m", "/", "j", "o", "e", "l", "t", "e", "r", "r", "y", "/", "f", "u", "n", ".", "p", "a", "n", "i", "c", "N", "i", "l">>
    [] f = "nilPtrErr"  -> <<"g", "i", "t", "h", "u", "b", ".", "c", "o", "m", "/", "j", "o", "e", "l", "t", "e", "r", "r", "y", "/", "f", "u", "n", ".", "n", "i", "l", "P", "t", "r", "E", "r", "r">>
    [] OTHER            -> << >>

\* isError (src/fun.go:269-272): does the type implement the error interface
isError(t) == t \in {"error", "*errors.errorString", "*fun.myErr"}

\* can a value of dynamic type vt be passed where the parameter type pt is declared
Assignable(vt, pt) ==
  \/ vt = pt
  \/ pt = "reflect.Type" /\ vt = "*reflect.rtype"

----------------------------------------------------------------------------
\* Invocation: c.ft.val.Call(argVals).  An outcome is a normal return with a
\* result tuple, or a panic with a payload.

Returned(rs) == [panicked |-> FALSE, payload |-> Nil, results |-> rs]
Panicked(p) == [panicked |-> TRUE, payload |-> p, results |-> << >>]

\* strconv.Itoa(n) + " is negative", on the negative numbers the inputs hold
IsNegativeMsg(n) == IF n = -1 THEN "-1 is negative" ELSE IF n = -2 THEN "-2 is negative" ELSE "? is negative"

\* sumUnder10 (src/fun_test.go:19-31)
sumUnder10(ns) ==
  LET RECURSIVE Loop(_, _)
      Loop(k, r) ==
        IF k > Len(ns) THEN Returned(<<IntV(r), Nil>>)
        ELSE IF ns[k].num < 0 THEN Panicked(StrV(IsNegativeMsg(ns[k].num)))
        ELSE IF r + ns[k].num >= 10
             THEN Returned(<<IntV(0), ErrNew(1, "sum should be less than 10")>>)
             ELSE Loop(k + 1, r + ns[k].num)
  IN Loop(1, 0)

\* the body of each target, run on arguments that fit its parameters
Body(f, args) ==
  CASE f = "sumUnder10" -> sumUnder10(args)
    [] f = "novalues"   -> Returned(<< >>)
    [] f = "isError"    -> Returned(<<BoolV(isError(args[1].str))>>)
    [] f = "panicNil"   -> Panicked(Nil)
    [] f = "nilPtrErr"  -> Returned(<<IntV(1), NilPtrErr>>)
    [] OTHER            -> Returned(<< >>)

\* reflect.Value.Call: panics itself when the arguments do not fit
Call(f, args) ==
  LET p == InTypes(f)
      n == Len(p.fixed)
  IN IF \E i \in 1..Len(args) : args[i] = Nil
     THEN Panicked(StrV("reflect: Call using zero Value argument"))
     ELSE IF Len(args) < n
     THEN Panicked(StrV("reflect: Call with too few input arguments"))
     ELSE IF ~p.variadic /\ Len(args) > n
     THEN Panicked(StrV("reflect: Call with too many input arguments"))
     ELSE IF \E i \in 1..Len(args) :
               ~Assignable(args[i].type, IF i <= n THEN p.fixed[i] ELSE p.elem)
     THEN Panicked(StrV("reflect: Call using value of wrong type"))
     ELSE Body(f, args)

\* recover() in a deferred func: the payload of the panic in flight, nil when
\* there is none (and nil for panic(nil))
Recover(o) == IF o.panicked THEN o.payload ELSE Nil

----------------------------------------------------------------------------
\* FunTest and Case

FtPtr == "ft"
NilPtr == "nilptr"

\* the zero FunTest with its sink set: &FunTest{t: t}
NewFunTest == [val |-> "zero", typ |-> << >>, valid |-> FALSE, errors |-> FALSE,
               name |-> << >>, i |-> 0]

\* mutant: a failed construction is not reported to the sink
testSilent(f) ==
  IF Kind(f) # "func" THEN [ft |-> NewFunTest, fails |-> 0]
  ELSE [ft |-> [val |-> f, typ |-> OutTypes(f), valid |-> TRUE,
                errors |-> Len(OutTypes(f)) > 0 /\ isError(OutTypes(f)[Len(OutTypes(f))]),
                name |-> trimPkg(FuncName(f)), i |-> 0],
        fails |-> 0]

\* test (src/fun.go:306-334): the FunTest built and the number of t.Fail() calls
test(f) ==
  IF f = "nil" THEN [ft |-> NewFunTest, fails |-> 1]
  ELSE IF Kind(f) # "func" THEN [ft |-> NewFunTest, fails |-> 1]
  ELSE LET numOut == Len(OutTypes(f))
       IN [ft |-> [val |-> f, typ |-> OutTypes(f), valid |-> TRUE,
                   errors |-> numOut > 0 /\ isError(OutTypes(f)[numOut]),
                   name |-> trimPkg(FuncName(f)), i |-> 0],
           fails |-> 0]

\* mutant: In binds the case without counting it
InSkipsCount(h, args) ==
  [ft |-> h, case |-> [ft |-> FtPtr, args |-> args]]

\* FunTest.In (src/fun.go:339-342): ft.i++ and the Case returned
In(h, args) ==
  [ft |-> [h EXCEPT !.i = h.i + 1], case |-> [ft |-> FtPtr, args |-> args]]

\* what a terminal assertion did: the *FunTest returned, the t.Fail() calls,
\* the invocations of the target, and the FunTest as it is left
Done(h, c, nfails, ncalls) == [ret |-> c.ft, fails |-> nfails, calls |-> ncalls, ft |-> h]

\* mutant: the trailing nil error is not elided
OutNoElide(h, c, results) ==
  IF ~h.valid THEN Done(h, c, 0, 0)
  ELSE LET o == Call(h.val, c.args)
       IN IF o.panicked THEN Done(h, c, IF Recover(o) # Nil THEN 1 ELSE 0, 1)
          ELSE IF Len(o.results) # Len(results) THEN Done(h, c, 1, 1)
          ELSE IF \E i \in 1..Len(results) : ~DeepEqual(o.results[i], results[i])
               THEN Done(h, c, 1, 1)
               ELSE Done(h, c, 0, 1)

\* Case.Out (src/fun.go:349-398)
Out(h, c, results) ==
  IF ~h.valid THEN Done(h, c, 0, 0)
  ELSE LET o == Call(h.val, c.args)
       IN IF o.panicked
          THEN \* the deferred func: if r := recover(); r != nil { Fail }
               Done(h, c, IF Recover(o) # Nil THEN 1 ELSE 0, 1)
          ELSE LET realResults == o.results
                   elide == h.errors /\ Len(results) = Len(realResults) - 1
               IN IF elide /\ realResults[Len(realResults)] # Nil
                  THEN Done(h, c, 1, 1)
                  ELSE LET rr == IF elide THEN Front(realResults) ELSE realResults
                       IN IF Len(rr) # Len(results) THEN Done(h, c, 1, 1)
                          ELSE IF \E i \in 1..Len(rr) : ~DeepEqual(rr[i], results[i])
                               THEN Done(h, c, 1, 1)
                               ELSE Done(h, c, 0, 1)

\* last.(error): ok, and the error value (nil when the assertion fails)
IsErrorValue(v) == v # Nil /\ isError(v.type)

\* mutant: the target is invoked before the errors flag is looked at
ErrCallsFirst(h, c, v) ==
  IF ~h.valid THEN Done(h, c, 0, 0)
  ELSE IF ~h.errors THEN Done(h, c, 1, 1)
  ELSE LET o == Call(h.val, c.args)
       IN IF o.panicked THEN Done(h, c, IF Recover(o) # Nil THEN 1 ELSE 0, 1)
          ELSE LET e == o.results[Len(o.results)]
               IN IF e = Nil
                  THEN Done(h, c, IF Len(v) > 0 /\ v[1] = Nil THEN 0 ELSE 1, 1)
                  ELSE Done(h, c, IF Len(v) > 0 /\ ~DeepEqual(v[1], e) THEN 1 ELSE 0, 1)

\* mutant: the older Err (src/fun.go:123-163), which takes no expected value into account
ErrIgnoresExpected(h, c, v) ==
  IF ~h.valid THEN Done(h, c, 0, 0)
  ELSE IF ~h.errors THEN Done(h, c, 1, 0)
  ELSE LET o == Call(h.val, c.args)
       IN IF o.panicked THEN Done(h, c, IF Recover(o) # Nil THEN 1 ELSE 0, 1)
          ELSE IF Len(o.results) = 0 THEN Done(h, c, 1, 1)
          ELSE IF ~IsErrorValue(o.results[Len(o.results)]) THEN Done(h, c, 1, 1)
          ELSE Done(h, c, 0, 1)

\* mutant: Err on a func that does not return an error only prints, without t.Fail()
ErrNoUsageFail(h, c, v) ==
  IF ~h.valid THEN Done(h, c, 0, 0)
  ELSE IF ~h.errors THEN Done(h, c, 0, 0)
  ELSE LET o == Call(h.val, c.args)
       IN IF o.panicked THEN Done(h, c, IF Recover(o) # Nil THEN 1 ELSE 0, 1)
          ELSE LET e == o.results[Len(o.results)]
               IN IF e = Nil
                  THEN Done(h, c, IF Len(v) > 0 /\ v[1] = Nil THEN 0 ELSE 1, 1)
                  ELSE Done(h, c, IF Len(v) > 0 /\ ~DeepEqual(v[1], e) THEN 1 ELSE 0, 1)

\* Case.Err (src/fun.go:404-459)
Err(h, c, v) ==
  IF ~h.valid THEN Done(h, c, 0, 0)
  ELSE IF ~h.errors THEN Done(h, c, 1, 0)
  ELSE LET o == Call(h.val, c.args)
       IN IF o.panicked
          THEN Done(h, c, IF Recover(o) # Nil THEN 1 ELSE 0, 1)
          ELSE LET resVals == o.results
               IN IF Len(resVals) = 0 THEN Done(h, c, 1, 1)
                  ELSE LET lastv == resVals[Len(resVals)]
                           ok == IsErrorValue(lastv)
                           errIsNil == ~ok
                       IN IF errIsNil
                          THEN IF Len(v) > 0 /\ v[1] = Nil
                               THEN Done(h, c, 0, 1)
                               ELSE Done(h, c, 1, 1)
                          ELSE IF ~ok THEN Done(h, c, 1, 1)
                          ELSE IF Len(v) > 0 /\ ~DeepEqual(v[1], lastv)
                               THEN Done(h, c, 1, 1)
                               ELSE Done(h, c, 0, 1)

\* mutant: the older Panic (src/fun.go:165-186), which never compares the payload
PanicIgnoresExpected(h, c, v) ==
  IF ~h.valid THEN Done(h, c, 0, 0)
  ELSE LET o == Call(h.val, c.args)
       IN IF o.panicked THEN Done(h, c, 0, 1) ELSE Done(h, c, 1, 1)

\* mutant: a failed Panic assertion marks the builder invalid (fail-fast)
PanicFailFast(h, c, v) ==
  IF ~h.valid THEN Done(h, c, 0, 0)
  ELSE LET o == Call(h.val, c.args)
       IN IF ~o.panicked THEN Done([h EXCEPT !.valid = FALSE], c, 1, 1)
          ELSE IF Len(v) > 0 /\ ~DeepEqual(v[1], Recover(o))
               THEN Done([h EXCEPT !.valid = FALSE], c, 1, 1)
               ELSE Done(h, c, 0, 1)

\* Case.Panic (src/fun.go:464-498)
Panic(h, c, v) ==
  IF ~h.valid THEN Done(h, c, 0, 0)
  ELSE LET o == Call(h.val, c.args)
           didPanic == o.panicked
       IN IF ~didPanic
          THEN Done(h, c, 1, 1)
          ELSE LET r == Recover(o)
               IN IF Len(v) = 0 THEN Done(h, c, 0, 1)
                  ELSE IF ~DeepEqual(v[1], r) THEN Done(h, c, 1, 1)
                  ELSE Done(h, c, 0, 1)

----------------------------------------------------------------------------
\* The inputs: argument lists bound by In, and the expected values given to
\* Out, Err and Panic

ErrSum == ErrNew(2, "sum should be less than 10")
ErrWrong == ErrNew(3, "wrong error")

ArgLists ==
  { << >>, <<IntV(1), IntV(2)>>, <<IntV(4), IntV(4)>>, <<IntV(5), IntV(5)>>,
    <<IntV(-1), IntV(2)>>, <<IntV(1), IntV(-2)>>, <<IntV(1)>>, <<StrV("x")>>,
    <<Nil>>, <<TypeOfErr>> }

Expects ==
  { << >>, <<IntV(3)>>, <<IntV(3), Nil>>, <<IntV(8)>>, <<IntV(0)>>, <<IntV(10)>>,
    <<IntV(0), ErrSum>>, <<IntV(0), ErrWrong>>, <<IntV(1)>>, <<IntV(1), NilPtrErr>>,
    <<Nil>>, <<ErrSum>>, <<ErrWrong>>, <<NilPtrErr>>, <<BoolV(TRUE)>>,
    <<StrV("-1 is negative")>>, <<StrV("-2 is negative")>> }

Asserts == {"Out", "Err", "Panic"}

NoCase == [ft |-> NilPtr, args |-> << >>]
NoCall == [op |-> "none", args |-> << >>, exp |-> << >>, ret |-> NilPtr, fails |-> 0, calls |-> 0]

----------------------------------------------------------------------------
\* The state machine: New --Test--> Unbound --In--> Bound --Out|Err|Panic--> Unbound

Init ==
  /\ pc = "new"
  /\ fun = "nil"
  /\ ft = NewFunTest
  /\ cur = NoCase
  /\ fails = 0
  /\ last = NoCall
  /\ nIn = 0
  /\ tpc = "idle"
  /\ tin = << >>
  /\ tout = << >>

DoTest ==
  /\ pc = "new"
  /\ \E f \in Targets :
       LET r == test(f)
       IN /\ fun' = f
          /\ ft' = r.ft
          /\ fails' = fails + r.fails
          /\ last' = [NoCall EXCEPT !.op = "Test", !.ret = FtPtr, !.fails = r.fails]
  /\ pc' = "unbound"
  /\ UNCHANGED <<cur, nIn, trimVars>>

DoIn ==
  /\ pc = "unbound"
  /\ ft.i < MaxCases
  /\ \E args \in ArgLists :
       LET r == In(ft, args)
       IN /\ ft' = r.ft
          /\ cur' = r.case
          /\ last' = [NoCall EXCEPT !.op = "In", !.args = args]
  /\ nIn' = nIn + 1
  /\ pc' = "bound"
  /\ UNCHANGED <<fun, fails, trimVars>>

Finish(op, exp, r) ==
  /\ ft' = r.ft
  /\ fails' = fails + r.fails
  /\ last' = [op |-> op, args |-> cur.args, exp |-> exp, ret |-> r.ret,
              fails |-> r.fails, calls |-> r.calls]
  /\ cur' = NoCase
  /\ pc' = "unbound"
  /\ UNCHANGED <<fun, nIn, trimVars>>

DoOut ==
  /\ pc = "bound"
  /\ \E results \in Expects : Finish("Out", results, Out(ft, cur, results))

DoErr ==
  /\ pc = "bound"
  /\ \E v \in Expects : Finish("Err", v, Err(ft, cur, v))

DoPanic ==
  /\ pc = "bound"
  /\ \E v \in Expects : Finish("Panic", v, Panic(ft, cur, v))

Next == DoTest \/ DoIn \/ DoOut \/ DoErr \/ DoPanic

Spec == Init /\ [][Next]_vars

----------------------------------------------------------------------------
\* trimPkg applied to every string over a small alphabet

Alphabet == {"/", ".", "a", "b"}

Strings == UNION {[1..n -> Alphabet] : n \in 0..MaxLen}

\* the inputs of TestTrimPkg's shape that the documentation names
NamedInputs ==
  { <<"p", "k", "g", ".", "F", "u", "n", "c">>,
    <<"p", "k", "g", ".", "T", "y", "p", "e", ".", "F", "u", "n", "c">>,
    <<"a", "/", "b", "/", "p", "k", "g", ".", "F", "u", "n", "c">>,
    <<"a", "/", "b", "/", "p", "k", "g", ".", "(", "*", "T", "y", "p", "e", ")", ".", "F", "u", "n", "c">> }

\* what the documentation says trimPkg gives for each of them
NamedResult(s) ==
  CASE s = <<"p", "k", "g", ".", "F", "u", "n", "c">> -> <<"F", "u", "n", "c">>
    [] s = <<"p", "k", "g", ".", "T", "y", "p", "e", ".", "F", "u", "n", "c">> -> <<"T", "y", "p", "e", ".", "F", "u", "n", "c">>
    [] s = <<"a", "/", "b", "/", "p", "k", "g", ".", "F", "u", "n", "c">> -> <<"F", "u", "n", "c">>
    [] s = <<"a", "/", "b", "/", "p", "k", "g", ".", "(", "*", "T", "y", "p", "e", ")", ".", "F", "u", "n", "c">> -> <<"(", "*", "T", "y", "p", "e", ")", ".", "F", "u", "n", "c">>
    [] OTHER -> << >>

InitTrim ==
  /\ pc = "new"
  /\ fun = "nil"
  /\ ft = NewFunTest
  /\ cur = NoCase
  /\ fails = 0
  /\ last = NoCall
  /\ nIn = 0
  /\ tpc = "start"
  /\ tin \in Strings \cup NamedInputs
  /\ tout = << >>

DoTrim ==
  /\ tpc = "start"
  /\ tout' = trimPkg(tin)
  /\ tpc' = "done"
  /\ UNCHANGED <<tin, mainVars>>

NextTrim == DoTrim

SpecTrim == InitTrim /\ [][NextTrim]_vars

----------------------------------------------------------------------------
\* Properties

\* the value given to test was a func: the builder is valid
ValidTarget == Kind(fun) = "func"

\* the func declares a trailing return of a type that implements error
ErrTarget ==
  /\ Len(OutTypes(fun)) > 0
  /\ OutTypes(fun)[Len(OutTypes(fun))] \in {"error", "*fun.myErr", "*errors.errorString"}

\* what invoking the target with the arguments of the last call produces
Outcome == Call(fun, last.args)

Passed == last.fails = 0

\* E[i] is deeply equal to A[i] for every i in 1..n
PrefixEqual(E, A, n) == \A i \in 1..n : DeepEqual(A[i], E[i])

\* C1: on a valid builder, when the invocation returns normally with tuple A,
\* Out(E...) signals no failure iff (a) |E| = |A| and E, A are elementwise
\* deeply equal, or (b) the last declared return is an error type, |E| = |A|-1,
\* the last element of A is nil and E is elementwise deeply equal to the rest.
C1_OutVerdict ==
  (last.op = "Out" /\ ValidTarget /\ ~Outcome.panicked) =>
    LET A == Outcome.results
        E == last.exp
        a == Len(E) = Len(A) /\ PrefixEqual(E, A, Len(E))
        b == /\ ErrTarget
             /\ Len(E) = Len(A) - 1
             /\ A[Len(A)] = Nil
             /\ PrefixEqual(E, A, Len(E))
    IN /\ Passed <=> (a \/ b)
       /\ last.fails <= 1

\* sumUnder10(1, 2) returns (3, nil) and Out(3), the error left out, has passed
C1_Witness ==
  /\ last.op = "Out" /\ fun = "sumUnder10"
  /\ last.args = <<IntV(1), IntV(2)>> /\ last.exp = <<IntV(3)>>
  /\ Passed

\* C2: on a valid builder whose target declares a trailing error, when the
\* invocation returns normally with last result e, Err(v?) signals no failure
\* iff (e is nil and an expected value was given and is nil) or (e is non-nil
\* and either no expected value was given or it is deeply equal to e).
C2_ErrVerdict ==
  (last.op = "Err" /\ ValidTarget /\ ErrTarget /\ ~Outcome.panicked) =>
    LET e == Outcome.results[Len(Outcome.results)]
        v == last.exp
    IN /\ Passed <=> \/ e = Nil /\ Len(v) > 0 /\ v[1] = Nil
                     \/ e # Nil /\ (Len(v) = 0 \/ DeepEqual(v[1], e))
       /\ last.fails <= 1

\* sumUnder10(5, 5) returns an error and Err(errors.New(same text)), another
\* pointer with the same content, has passed
C2_Witness ==
  /\ last.op = "Err" /\ fun = "sumUnder10"
  /\ last.args = <<IntV(5), IntV(5)>> /\ last.exp = <<ErrSum>>
  /\ Outcome.results[2] # ErrSum
  /\ Passed

\* C3: on a valid builder, when the invocation panics with payload P (nil
\* included), Panic() and Panic(P) signal no failure and Panic(Q), Q not deeply
\* equal to P, signals failure; when it returns normally, Panic signals failure
\* with or without an expected payload.
C3_PanicVerdict ==
  (last.op = "Panic" /\ ValidTarget) =>
    LET o == Outcome
        v == last.exp
    IN /\ (o.panicked /\ Len(v) = 0) => Passed
       /\ (o.panicked /\ Len(v) > 0 /\ DeepEqual(v[1], o.payload)) => Passed
       /\ (o.panicked /\ Len(v) > 0 /\ ~DeepEqual(v[1], o.payload)) => last.fails = 1
       /\ ~o.panicked => last.fails = 1

\* the target panicked with a nil payload and Panic(nil) has passed
C3_Witness ==
  /\ last.op = "Panic" /\ fun = "panicNil"
  /\ Outcome.panicked /\ Outcome.payload = Nil
  /\ last.exp = <<Nil>>
  /\ Passed

\* C4: on a valid builder, any panic raised while Out or Err invokes the
\* target, whatever its payload (nil included), is reported to the sink as a
\* failure.
C4_PanicIsFailure ==
  (last.op \in {"Out", "Err"} /\ ValidTarget /\ last.calls = 1 /\ Outcome.panicked) =>
    last.fails >= 1

\* C5: a builder made from nil or from a non-func has signalled the sink
\* exactly once, at construction, and is invalid; no later In, Out, Err or
\* Panic signals it again, and each assertion returns that same builder.
C5_InvalidBuilder ==
  (pc # "new" /\ ~ValidTarget) =>
    /\ fails = 1
    /\ ~ft.valid
    /\ last.op \in Asserts => (last.ret = FtPtr /\ last.fails = 0)

\* two cases were bound on a builder made from a non-func and the second
\* assertion has returned
C5_Witness ==
  /\ fun = "string" /\ nIn >= 2
  /\ last.op = "Out" /\ last.ret = FtPtr
  /\ fails = 1

\* C6: Err, with or without an expected value, on a valid builder whose target
\* declares no trailing error return (no return at all included) signals
\* failure, for every argument list and outcome.
C6_ErrUsage ==
  (last.op = "Err" /\ ValidTarget /\ ~ErrTarget) => last.fails = 1

\* Err(nil) on func() {} has failed
C6_Witness ==
  /\ last.op = "Err" /\ fun = "novalues"
  /\ last.args = << >> /\ last.exp = <<Nil>>
  /\ last.fails = 1

\* the assertion op run on the FunTest h for the case c
Apply(op, h, c, exp) ==
  CASE op = "Out" -> Out(h, c, exp)
    [] op = "Err" -> Err(h, c, exp)
    [] OTHER      -> Panic(h, c, exp)

\* C7: on a valid builder every assertion returns that same builder and the
\* builder stays valid, and its verdict and its invocation of the target are
\* those of the same case run first on a freshly built builder.
C7_NoTrace ==
  (last.op \in Asserts /\ ValidTarget) =>
    LET fresh == Apply(last.op, test(fun).ft, [ft |-> FtPtr, args |-> last.args], last.exp)
    IN /\ last.ret = FtPtr
       /\ ft.valid
       /\ last.fails = fresh.fails
       /\ last.calls = fresh.calls

\* after an earlier case failed, a later Out on the same builder has invoked
\* the target and passed
C7_Witness ==
  /\ ValidTarget /\ nIn >= 2 /\ fails >= 1
  /\ last.op = "Out" /\ last.calls = 1 /\ Passed

\* C8: every call invokes the target at most once; In never does; Out, Err
\* and Panic on an invalid builder do not; Err on a target without a trailing
\* error return does not.
C8_CallsOnce ==
  /\ last.calls <= 1
  /\ last.op \notin Asserts => last.calls = 0
  /\ (last.op \in Asserts /\ ~ValidTarget) => last.calls = 0
  /\ (last.op = "Err" /\ ValidTarget /\ ~ErrTarget) => last.calls = 0
  /\ (last.op \in Asserts /\ ValidTarget /\ (last.op = "Err" => ErrTarget)) => last.calls = 1

\* Err on isError, which returns only a bool, has failed without invoking it
C8_Witness ==
  /\ last.op = "Err" /\ fun = "isError"
  /\ last.args = <<TypeOfErr>>
  /\ last.calls = 0 /\ last.fails = 1

\* C9: once built, the builder's valid and errors flags never change; the
\* case counter changes only in In, by exactly one, so it always equals the
\* number of In calls made.
C9_Frame ==
  [][ /\ ft'.i = nIn'
      /\ pc # "new" =>
           /\ ft'.valid = ft.valid
           /\ ft'.errors = ft.errors
           /\ ft'.i = IF last'.op = "In" /\ pc = "unbound" THEN ft.i + 1 ELSE ft.i ]_vars

\* a failed Panic assertion has returned on a valid builder after two In calls
C9_Witness ==
  /\ ValidTarget /\ ft.errors /\ ft.i = 2 /\ nIn = 2
  /\ last.op = "Panic" /\ last.fails = 1

\* the reference result: the part of s after its last '/', then cut after its
\* only dot, or after its second-to-last dot when it has two or more
SetMax(S) == CHOOSE m \in S : \A x \in S : x <= m

AfterIndex(s, k) == [j \in 1..(Len(s) - k) |-> s[k + j]]

TrimRef(s) ==
  LET slashes == {k \in DOMAIN s : s[k] = "/"}
      t == IF slashes = {} THEN s ELSE AfterIndex(s, SetMax(slashes))
      dots == {k \in DOMAIN t : t[k] = "."}
  IN IF dots = {} THEN t
     ELSE IF Cardinality(dots) = 1 THEN AfterIndex(t, SetMax(dots))
     ELSE AfterIndex(t, SetMax(dots \ {SetMax(dots)}))

\* C10: for every input s, trimPkg(s) is the reference result, and the named
\* inputs give the named results.
C10_TrimPkg ==
  tpc = "done" =>
    /\ tout = TrimRef(tin)
    /\ tin \in NamedInputs => tout = NamedResult(tin)

\* trimPkg applied to ".a.b" has given "a.b"
C10_Witness ==
  /\ tpc = "done"
  /\ tin = <<".", "a", ".", "b">>
  /\ tout = <<"a", ".", "b">>

====
